---- MODULE Spec2Model ----
(***************************************************************************)
(* Event API (src/app.py): a FastAPI application with a websocket          *)
(* ConnectionManager, POST /event ingestion, GET /event query and          *)
(* GET /health.  The handlers are asyncio coroutines: the code between two *)
(* awaits runs atomically, and every await of a websocket operation        *)
(* (accept, send_json, receive_text) is a point where other handlers run.  *)
(***************************************************************************)
EXTENDS Integers, Sequences, FiniteSets, TLC

(* ------------------------------- bounds -------------------------------- *)
\* websocket sessions the model opens
NumConns == 3
\* POST /event requests the model issues
NumPosts == 2
\* requests, text frames and transport changes that arrive from outside, in all
MaxEvents == 4

Conns == 1..NumConns
Posts == (NumConns + 1)..(NumConns + NumPosts)
Tasks == Conns \cup Posts

(* ------------------------------ JSON values ---------------------------- *)
\* A JSON value: an object is a set of <<key, value>> pairs.
Obj(fields) == [kind |-> "object", fields |-> fields, atom |-> ""]
Num(n) == [kind |-> "number", fields |-> {}, atom |-> n]
None == [kind |-> "none", fields |-> {}, atom |-> ""]
NoField == "<absent>"

Keys(d) == {p[1] : p \in d}
Get(d, k) == (CHOOSE p \in d : p[1] = k)[2]

\* Python truthiness of a dict
Truthy(d) == d # {}

\* The request bodies of POST /event that the model issues
Bodies ==
  { {<<"eventname", "a">>},
    {<<"eventname", "Ping">>, <<"k", "1">>},
    {<<"eventname", "">>} }

\* The text frames a websocket client sends: text that is no JSON, and JSON texts
WsTexts ==
  { [valid |-> FALSE, value |-> None],
    [valid |-> TRUE, value |-> Obj({<<"eventname", "a">>, <<"k", "1">>})],
    [valid |-> TRUE, value |-> Obj({<<"eventname", "">>})],
    [valid |-> TRUE, value |-> Obj({<<"k", "1">>})],
    [valid |-> TRUE, value |-> Num("5")] }

\* A parser that rejects nothing
json_loads_no_raise(text) == [raised |-> FALSE, value |-> text.value]

\* json.loads: raises JSONDecodeError on text that is no JSON
json_loads(text) == [raised |-> ~text.valid, value |-> text.value]

\* `"eventname" in message`: membership on a dict; a number is not iterable
HasEventname(message) ==
  IF message.kind = "object"
    THEN [raised |-> FALSE, value |-> "eventname" \in Keys(message.fields)]
    ELSE [raised |-> TRUE, value |-> FALSE]

\* event.model_dump(exclude={"eventname"}) and
\* {k: v for k, v in message.items() if k != "eventname"}
WithoutEventname(d) == {p \in d : p[1] # "eventname"}

\* EventRequest: eventname is required, a string of min_length 1
EventRequestValid(body) ==
  /\ "eventname" \in Keys(body)
  /\ Get(body, "eventname") # ""

\* datetime.isoformat()
isoformat(t) == <<"utc", t>>

(* -------------------------------- frames ------------------------------- *)
Frame(type, event, data, message, timestamp, source) ==
  [type |-> type, event |-> event, data |-> data, message |-> message,
   timestamp |-> timestamp, source |-> source]

NoFrame == Frame("none", NoField, None, NoField, isoformat(0), NoField)

WelcomeFrame(ts) ==
  Frame("connection", NoField, None, "WebSocket connection established", ts, NoField)
ErrorFrame(ts) == Frame("error", NoField, None, "Invalid JSON format", ts, NoField)
\* An echo that does not carry the message back
EchoFrameEmpty(message, ts) == Frame("echo", NoField, None, NoField, ts, NoField)
EchoFrame(message, ts) == Frame("echo", NoField, message, NoField, ts, NoField)
ConfirmationFrame(event_name, ts) ==
  Frame("confirmation", event_name, None,
        "Event '" \o event_name \o "' broadcast to all connections", ts, NoField)
NotificationFrame(ts) ==
  Frame("notification", NoField, None, "A client disconnected", ts, NoField)
WsEventFrame(event_name, event_data, ts) ==
  Frame("event", event_name, Obj(event_data), NoField, ts, "websocket")

(* ------------------------------ the state ------------------------------ *)
VARIABLES
  active_connections,  \* manager.active_connections: a list of connections
  pc,                  \* each handler's position
  err,                 \* the exception that ended a handler, or "none"
  received,            \* the text a session's receive_text() last returned
  out,                 \* the frame a session is sending to its own socket
  bc,                  \* each handler's call of manager.broadcast
  resp,                \* the EventResponse of each POST /event
  inbox,               \* the frames each client has received
  transport,           \* each connection's transport
  now,                 \* the wall clock
  arrivals,            \* how much has arrived from outside so far
  removals,            \* how often disconnect removed each connection
  call,                \* the last direct call of a ConnectionManager method
  wire                 \* per connection: the handlers awaiting send_json on it

vars == <<active_connections, pc, err, received, out, bc, resp, inbox, transport, now,
          arrivals, removals, call, wire>>

Range(s) == {s[i] : i \in 1..Len(s)}
Count(s, x) == Cardinality({i \in 1..Len(s) : s[i] = x})

(* -------------------------- ConnectionManager -------------------------- *)
\* list.remove(x): removes the first occurrence, raises ValueError without one
list_remove(list, x) ==
  IF x \in Range(list)
    THEN LET i == CHOOSE i \in 1..Len(list) :
                    list[i] = x /\ \A j \in 1..(i - 1) : list[j] # x
         IN [raised |-> FALSE,
             list |-> SubSeq(list, 1, i - 1) \o SubSeq(list, i + 1, Len(list))]
    ELSE [raised |-> TRUE, list |-> list]

\* ConnectionManager.disconnect
disconnect(list, websocket) == list_remove(list, websocket)

\* A connect that registers the connection twice
connect_twice(list, websocket) == list \o <<websocket, websocket>>

\* ConnectionManager.connect, after websocket.accept() has returned
connect(list, websocket) == Append(list, websocket)

\* health_check: "websocket_connections"
LiveConnectionCount == Len(active_connections)

\* A call of manager.broadcast.  idx is the position of the list iterator (the
\* number of items it has handed out), cur the connection whose send_json is
\* awaited.  att, fails, stable and changed are history: the connections
\* send_json was called on, those whose send raised, those in the list at every
\* moment since the call, whether the list was changed since.
NoBroadcast ==
  [state |-> "idle", msg |-> NoFrame, idx |-> 0, cur |-> 0, att |-> <<>>,
   fails |-> {}, stable |-> {}, changed |-> FALSE]

\* `for connection in self.active_connections`: the iterator reads the list
\* itself, at its current length, every time it is asked for the next item
ListIterNext(list, idx) ==
  IF idx < Len(list)
    THEN [stop |-> FALSE, item |-> list[idx + 1], idx |-> idx + 1]
    ELSE [stop |-> TRUE, item |-> 0, idx |-> idx]

\* The loop of broadcast from the iterator's next item on, up to the next await
BcFetch(b, list) ==
  LET n == ListIterNext(list, b.idx)
  IN IF n.stop
       THEN [b EXCEPT !.state = "returned", !.cur = 0]
       ELSE [b EXCEPT !.state = "running", !.idx = n.idx, !.cur = n.item,
                      !.att = Append(@, n.item)]

\* manager.broadcast(message) up to its first await
BcStart(list, message) ==
  BcFetch([NoBroadcast EXCEPT !.msg = message, !.stable = Range(list)],
          list)

\* A broadcast without the try/except: a failed send leaves the loop
BcAdvanceNoExcept(b, list, failed) ==
  IF failed
    THEN [b EXCEPT !.state = "raised", !.fails = @ \cup {b.cur}, !.cur = 0]
    ELSE BcFetch(b, list)

\* A broadcast that sends again to a connection whose send failed
BcAdvanceRetry(b, list, failed) ==
  IF failed
    THEN [b EXCEPT !.fails = @ \cup {b.cur}]
    ELSE BcFetch(b, list)

\* broadcast resumed after the send to b.cur has returned or raised (failed):
\* try: await connection.send_json(message) / except: pass, then the next item
BcAdvance(b, list, failed) ==
  BcFetch([b EXCEPT !.fails = IF failed THEN @ \cup {b.cur} ELSE @], list)

\* History: the list has become newlist while the broadcasts in bcs were running
Touch(bcs, newlist) ==
  [t \in Tasks |->
     IF bcs[t].state = "running"
       THEN [bcs[t] EXCEPT !.changed = TRUE,
                           !.stable = @ \cap Range(newlist)]
       ELSE bcs[t]]

(* ------------------------ send_json on one socket ---------------------- *)
\* The frames of one socket go out in the order send_json was called (the
\* server writes them to one stream): w[c] holds the handlers whose send_json
\* on connection c has been called and has not returned, in call order.
\* A call that is made last goes out first
WireCallFront(w, c, t) == [w EXCEPT ![c] = <<t>> \o @]

\* Handler t calls send_json on connection c
WireCall(w, c, t) == [w EXCEPT ![c] = Append(@, t)]

\* The send_json of handler t on connection c is the next to return
SendReady(t, c) == wire[c] # <<>> /\ Head(wire[c]) = t

\* The send_json at the head of connection c's queue has returned or raised
WireDone(w, c) == [w EXCEPT ![c] = Tail(@)]

\* The broadcast b of handler t awaits its next send_json, if it is running
WireBroadcast(w, b, t) == IF b.state = "running" THEN WireCall(w, b.cur, t) ELSE w

(* ------------------------------ the clock ------------------------------ *)
\* datetime.utcnow(): a logical clock, every read returns a later instant than
\* the read before it (two timestamps are equal only if they come from one read)
ClockReads == {now + 1}

(* ------------------------------- Init ---------------------------------- *)
NoResponse ==
  [status |-> "none", event |-> NoField, message |-> NoField, data |-> None,
   timestamp |-> isoformat(0)]
NoText == [valid |-> TRUE, value |-> None]
NoCall == [op |-> "none", arg |-> 0, raised |-> FALSE, before |-> <<>>]

Init ==
  /\ active_connections = <<>>
  /\ pc = [t \in Tasks |-> IF t \in Conns THEN "init" ELSE "idle"]
  /\ err = [t \in Tasks |-> "none"]
  /\ received = [c \in Conns |-> NoText]
  /\ out = [c \in Conns |-> NoFrame]
  /\ bc = [t \in Tasks |-> NoBroadcast]
  /\ resp = [p \in Posts |-> NoResponse]
  /\ inbox = [c \in Conns |-> <<>>]
  /\ transport = [c \in Conns |-> "open"]
  /\ now = 0
  /\ arrivals = 0
  /\ removals = [c \in Conns |-> 0]
  /\ call = NoCall
  /\ wire = [c \in Conns |-> <<>>]

(* ------------------------- POST /event: routing ------------------------ *)
\* The letters str.lower() maps, and what it maps them to
UpperLetters ==
  <<"A", "B", "C", "D", "E", "F", "G", "H", "I", "J", "K", "L", "M",
    "N", "O", "P", "Q", "R", "S", "T", "U", "V", "W", "X", "Y", "Z">>
LowerLetters ==
  <<"a", "b", "c", "d", "e", "f", "g", "h", "i", "j", "k", "l", "m",
    "n", "o", "p", "q", "r", "s", "t", "u", "v", "w", "x", "y", "z">>

\* str.lower() of one character
LowerChar(ch) ==
  IF \E i \in DOMAIN UpperLetters : UpperLetters[i] = ch
    THEN LowerLetters[CHOOSE i \in DOMAIN UpperLetters : UpperLetters[i] = ch]
    ELSE ch

\* str.upper() of one character
UpperChar(ch) ==
  IF \E i \in DOMAIN LowerLetters : LowerLetters[i] = ch
    THEN UpperLetters[CHOOSE i \in DOMAIN LowerLetters : LowerLetters[i] = ch]
    ELSE ch

\* The str made of the characters cs
RECURSIVE Join(_)
Join(cs) == IF cs = <<>> THEN "" ELSE Head(cs) \o Join(Tail(cs))

\* The word w in every casing
Casings(w) ==
  {[i \in DOMAIN w |-> IF i \in U THEN UpperChar(w[i]) ELSE w[i]] :
     U \in SUBSET DOMAIN w}

\* The event names of the model, character by character: "handshake" and "ping"
\* in every casing, and names that are neither
NameChars ==
  Casings(<<"h", "a", "n", "d", "s", "h", "a", "k", "e">>)
    \cup Casings(<<"p", "i", "n", "g">>)
    \cup Casings(<<"a">>)
    \cup {<<>>, <<"p", "o", "n", "g">>, <<"p", "i", "n", "g", "s">>,
          <<"P", "I", "N">>, <<"h", "a", "n", "d">>, <<"p", "1", "n", "g">>}
NameTable == {<<Join(cs), cs>> : cs \in NameChars}
Names == {e[1] : e \in NameTable}

\* The characters of the str s
Chars(s) == (CHOOSE e \in NameTable : e[1] = s)[2]

\* A case-sensitive match
lower_identity(s) == s

\* event_name.lower(): every character lowered
lower(s) == Join([i \in DOMAIN Chars(s) |-> LowerChar(Chars(s)[i])])

\* match event_name.lower(): the message of the EventResponse
RouteMessage(event_name) ==
  CASE lower(event_name) = "handshake" -> "Handshake acknowledged"
    [] lower(event_name) = "ping" -> "Pong"
    [] OTHER -> "Event '" \o event_name \o "' received"

\* response_data = event_data if event_data else None (the same in every case)
ResponseData(event_data) == IF Truthy(event_data) THEN Obj(event_data) ELSE None

\* A broadcast message that carries the lower-cased name used for routing
PostEventFrameLower(event_name, event_data, ts) ==
  Frame("event", lower(event_name), Obj(event_data), NoField, ts, NoField)

\* broadcast_message of handle_event
PostEventFrame(event_name, event_data, ts) ==
  Frame("event", event_name, Obj(event_data), NoField, ts, NoField)

\* limit: int = Query(10, ge=1, le=100)
LimitDefault == 10
LimitMin == 1
LimitMax == 100

\* The limit the handler is called with: the query parameter, or the default
QueryLimit(param) == IF param.given THEN param.value ELSE LimitDefault

\* A validation that has no upper bound
QueryLimitValidNoUpper(limit) == limit >= LimitMin

\* ge=1, le=100: the request is validated before get_event is called
QueryLimitValid(limit) == limit >= LimitMin /\ limit <= LimitMax

\* The answer to a request that fails validation (422; get_event is not called)
ValidationError == [status |-> "422", message |-> "validation error"]

\* get_event: the query is answered without any stored event; without a name
\* the API information is returned, which carries no limit
get_event(eventname, limit) ==
  IF eventname # ""
    THEN [status |-> "success",
          query |-> [eventname |-> eventname, limit |-> limit],
          message |-> "Query for events with name '" \o eventname \o "'",
          events |-> <<>>]
    ELSE [status |-> "success", message |-> "Event API ready", events |-> <<>>]

(* ---------------------------- the handlers ----------------------------- *)
\* The server closes the socket of a handler that has ended
CloseTransport(c) ==
  [transport EXCEPT ![c] = IF @ = "open" THEN "closed" ELSE @]

\* An exception leaves the handler of task t
Crash(t, e) ==
  /\ pc' = [pc EXCEPT ![t] = "crashed"]
  /\ err' = [err EXCEPT ![t] = e]
  /\ transport' = IF t \in Conns THEN CloseTransport(t) ELSE transport

\* A client opens /ws: websocket_endpoint starts and awaits websocket.accept()
WsOpen(c) ==
  /\ pc[c] = "init"
  /\ IF c = 1 THEN TRUE ELSE pc[c - 1] # "init"
  /\ arrivals < MaxEvents
  /\ arrivals' = arrivals + 1
  /\ pc' = [pc EXCEPT ![c] = "accept"]
  /\ UNCHANGED <<active_connections, err, received, out, bc, resp, inbox,
                 transport, now, removals, call, wire>>

\* websocket.accept() returns: connect appends, and the welcome is sent
AcceptDone(c) ==
  /\ pc[c] = "accept"
  /\ transport[c] # "stalled"
  /\ IF transport[c] = "open"
       THEN /\ active_connections' = connect(active_connections, c)
            /\ bc' = Touch(bc, active_connections')
            /\ \E ts \in ClockReads :
                 /\ now' = ts
                 /\ out' = [out EXCEPT ![c] = WelcomeFrame(isoformat(ts))]
            /\ pc' = [pc EXCEPT ![c] = "welcome"]
            /\ wire' = WireCall(wire, c, c)
            /\ UNCHANGED <<err, transport>>
       ELSE /\ Crash(c, "AcceptError")
            /\ UNCHANGED <<active_connections, bc, now, out, wire>>
  /\ UNCHANGED <<received, resp, inbox, arrivals, removals, call>>

\* except WebSocketDisconnect: manager.disconnect(websocket), then the
\* notification is broadcast (up to the first await of the broadcast); w is the
\* state of the sockets when the exception is caught
HandleDisconnect(c, w) ==
  LET r == disconnect(active_connections, c)
  IN IF r.raised
       THEN /\ Crash(c, "ValueError")
            /\ wire' = w
            /\ UNCHANGED <<active_connections, bc, now, removals>>
       ELSE /\ active_connections' = r.list
            /\ removals' = [removals EXCEPT ![c] = @ + 1]
            /\ \E ts \in ClockReads :
                 /\ now' = ts
                 /\ LET b == BcStart(r.list, NotificationFrame(isoformat(ts)))
                    IN /\ bc' = [Touch(bc, r.list) EXCEPT ![c] = b]
                       /\ wire' = WireBroadcast(w, b, c)
                       /\ pc' = [pc EXCEPT ![c] =
                                   IF b.state = "running" THEN "notify" ELSE "closed"]
            /\ UNCHANGED <<err, transport>>

\* The exceptions send_json raises on a transport that has failed
SendErrors == {"WebSocketDisconnect", "RuntimeError"}

\* The send of a session's own frame (welcome, confirmation, echo, error) returns
\* or raises.  The welcome is sent before the try block; inside it only
\* WebSocketDisconnect is caught.
PersonalSendDone(c) ==
  /\ pc[c] \in {"welcome", "confirm", "echo", "error"}
  /\ transport[c] # "stalled"
  /\ SendReady(c, c)
  /\ IF transport[c] = "open"
       THEN /\ inbox' = [inbox EXCEPT ![c] = Append(@, out[c])]
            /\ pc' = [pc EXCEPT ![c] = "receive"]
            /\ bc' = [bc EXCEPT ![c] = NoBroadcast]
            /\ wire' = WireDone(wire, c)
            /\ UNCHANGED <<active_connections, err, transport, now, removals>>
       ELSE /\ \E e \in SendErrors :
                 IF pc[c] # "welcome" /\ e = "WebSocketDisconnect"
                   THEN HandleDisconnect(c, WireDone(wire, c))
                   ELSE /\ Crash(c, e)
                        /\ wire' = WireDone(wire, c)
                        /\ UNCHANGED <<active_connections, bc, now, removals>>
            /\ UNCHANGED inbox
  /\ out' = [out EXCEPT ![c] = NoFrame]
  /\ UNCHANGED <<received, resp, arrivals, call>>

\* receive_text() returns a text frame; the handler runs up to its next await
Receive(c, text) ==
  /\ pc[c] = "receive"
  /\ transport[c] = "open"
  /\ arrivals < MaxEvents
  /\ arrivals' = arrivals + 1
  /\ received' = [received EXCEPT ![c] = text]
  /\ LET m == json_loads(text)
         h == HasEventname(m.value)
     IN CASE m.raised ->
               \* except json.JSONDecodeError
               /\ \E ts \in ClockReads :
                    /\ now' = ts
                    /\ out' = [out EXCEPT ![c] = ErrorFrame(isoformat(ts))]
               /\ pc' = [pc EXCEPT ![c] = "error"]
               /\ wire' = WireCall(wire, c, c)
               /\ UNCHANGED <<bc, err, transport>>
          [] ~m.raised /\ h.raised ->
               /\ Crash(c, "TypeError")
               /\ UNCHANGED <<bc, now, out, wire>>
          [] ~m.raised /\ ~h.raised /\ h.value ->
               LET event_name == Get(m.value.fields, "eventname")
                   event_data == WithoutEventname(m.value.fields)
               IN \E ts \in ClockReads :
                    LET b == BcStart(active_connections,
                                     WsEventFrame(event_name, event_data, isoformat(ts)))
                    IN /\ now' = ts
                       /\ bc' = [bc EXCEPT ![c] = b]
                       /\ IF b.state = "running"
                            THEN /\ pc' = [pc EXCEPT ![c] = "broadcast"]
                                 /\ out' = out
                                 /\ wire' = WireBroadcast(wire, b, c)
                            ELSE /\ pc' = [pc EXCEPT ![c] = "confirm"]
                                 /\ out' = [out EXCEPT ![c] =
                                      ConfirmationFrame(event_name, isoformat(ts))]
                                 /\ wire' = WireCall(wire, c, c)
                       /\ UNCHANGED <<err, transport>>
          [] OTHER ->
               /\ \E ts \in ClockReads :
                    /\ now' = ts
                    /\ out' = [out EXCEPT ![c] = EchoFrame(m.value, isoformat(ts))]
               /\ pc' = [pc EXCEPT ![c] = "echo"]
               /\ wire' = WireCall(wire, c, c)
               /\ UNCHANGED <<bc, err, transport>>
  /\ UNCHANGED <<active_connections, resp, inbox, removals, call>>

\* receive_text() raises WebSocketDisconnect: the client has gone
ReceiveDisconnect(c) ==
  /\ pc[c] = "receive"
  /\ transport[c] = "closed"
  /\ HandleDisconnect(c, wire)
  /\ UNCHANGED <<received, out, resp, inbox, arrivals, call>>

\* The send_json awaited by the broadcast of task t returns or raises, and the
\* broadcast runs on to its next await or returns to its caller
BroadcastStep(t) ==
  /\ pc[t] \in {"broadcast", "notify"}
  /\ bc[t].state = "running"
  /\ transport[bc[t].cur] # "stalled"
  /\ SendReady(t, bc[t].cur)
  /\ LET b == bc[t]
         failed == transport[b.cur] # "open"
         b2 == BcAdvance(b, active_connections, failed)
         w == WireDone(wire, b.cur)
     IN /\ inbox' = IF failed THEN inbox
                    ELSE [inbox EXCEPT ![b.cur] = Append(@, b.msg)]
        /\ bc' = [bc EXCEPT ![t] = b2]
        /\ CASE b2.state = "running" ->
                  /\ wire' = WireBroadcast(w, b2, t)
                  /\ UNCHANGED <<pc, err, out, transport>>
             [] b2.state = "raised" ->
                  Crash(t, "SendError") /\ out' = out /\ wire' = w
             [] OTHER ->
                  /\ UNCHANGED <<err, transport>>
                  /\ IF t \in Posts
                       THEN pc' = [pc EXCEPT ![t] = "returned"]
                            /\ out' = out /\ wire' = w
                       ELSE IF pc[t] = "broadcast"
                         THEN /\ pc' = [pc EXCEPT ![t] = "confirm"]
                              /\ out' = [out EXCEPT ![t] =
                                   ConfirmationFrame(b.msg.event, b.msg.timestamp)]
                              /\ wire' = WireCall(w, t, t)
                         ELSE pc' = [pc EXCEPT ![t] = "closed"]
                              /\ out' = out /\ wire' = w
  /\ UNCHANGED <<active_connections, received, resp, now, arrivals,
                 removals, call>>

\* POST /event with a request body: validation, then handle_event up to the
\* first await of the broadcast, or to its return
Post(p, body) ==
  /\ pc[p] = "idle"
  /\ IF p = NumConns + 1 THEN TRUE ELSE pc[p - 1] # "idle"
  /\ arrivals < MaxEvents
  /\ arrivals' = arrivals + 1
  /\ IF ~EventRequestValid(body)
       THEN /\ pc' = [pc EXCEPT ![p] = "rejected"]
            /\ UNCHANGED <<bc, resp, now, wire>>
       ELSE LET event_name == Get(body, "eventname")
                event_data == WithoutEventname(body)
            IN \E ts \in ClockReads :
                 LET b == BcStart(active_connections,
                                  PostEventFrame(event_name, event_data, isoformat(ts)))
                 IN /\ now' = ts
                    /\ bc' = [bc EXCEPT ![p] = b]
                    /\ wire' = WireBroadcast(wire, b, p)
                    /\ resp' = [resp EXCEPT ![p] =
                         [status |-> "success", event |-> event_name,
                          message |-> RouteMessage(event_name),
                          data |-> ResponseData(event_data),
                          timestamp |-> isoformat(ts)]]
                    /\ pc' = [pc EXCEPT ![p] =
                                IF b.state = "running" THEN "broadcast" ELSE "returned"]
  /\ UNCHANGED <<active_connections, err, received, out, inbox, transport,
                 removals, call>>

(* --------------------------- the environment --------------------------- *)
\* The transport of a session under way changes for good: the client closes the
\* socket ("closed": reads raise WebSocketDisconnect, sends raise), sends start
\* to fail ("failing") or a send never completes ("stalled")
TransportChange(c, to) ==
  /\ pc[c] \notin {"init", "closed", "crashed"}
  /\ transport[c] = "open"
  /\ arrivals < MaxEvents
  /\ arrivals' = arrivals + 1
  /\ transport' = [transport EXCEPT ![c] = to]
  /\ UNCHANGED <<active_connections, pc, err, received, out, bc, resp, inbox,
                 now, removals, call, wire>>

ClientClose(c) == TransportChange(c, "closed")
TransportFail(c) == TransportChange(c, "failing")
TransportStall(c) == TransportChange(c, "stalled")

Next ==
  \/ \E c \in Conns : WsOpen(c)
  \/ \E c \in Conns : AcceptDone(c)
  \/ \E c \in Conns : PersonalSendDone(c)
  \/ \E c \in Conns, text \in WsTexts : Receive(c, text)
  \/ \E c \in Conns : ReceiveDisconnect(c)
  \/ \E t \in Tasks : BroadcastStep(t)
  \/ \E p \in Posts, body \in Bodies : Post(p, body)
  \/ \E c \in Conns : ClientClose(c)
  \/ \E c \in Conns : TransportFail(c)
  \/ \E c \in Conns : TransportStall(c)

Spec == Init /\ [][Next]_vars

\* The event loop runs every handler whose awaited operation can complete
Fairness ==
  /\ \A c \in Conns : WF_vars(AcceptDone(c))
  /\ \A c \in Conns : WF_vars(PersonalSendDone(c))
  /\ \A c \in Conns : WF_vars(ReceiveDisconnect(c))
  /\ \A t \in Tasks : WF_vars(BroadcastStep(t))

FairSpec == Spec /\ Fairness


(* ------------- ConnectionManager.disconnect called directly ------------ *)
\* registries of up to this many connections
MaxRegistry == 4
RegistryConns == 1..MaxRegistry

\* The lists without repetition over a set of connections
RECURSIVE ListsOver(_)
ListsOver(S) ==
  {<<>>} \cup UNION {{<<x>> \o l : l \in ListsOver(S \ {x})} : x \in S}

\* manager.disconnect(websocket) on the registry as it is
CallDisconnect(websocket) ==
  LET r == disconnect(active_connections, websocket)
  IN /\ active_connections' = r.list
     /\ call' = [op |-> "disconnect", arg |-> websocket, raised |-> r.raised,
                 before |-> active_connections]
     /\ UNCHANGED <<pc, err, received, out, bc, resp, inbox, transport, now,
                    arrivals, removals, wire>>

RegistryInit ==
  /\ active_connections \in ListsOver(RegistryConns)
  /\ pc = [t \in Tasks |-> IF t \in Conns THEN "init" ELSE "idle"]
  /\ err = [t \in Tasks |-> "none"]
  /\ received = [c \in Conns |-> NoText]
  /\ out = [c \in Conns |-> NoFrame]
  /\ bc = [t \in Tasks |-> NoBroadcast]
  /\ resp = [p \in Posts |-> NoResponse]
  /\ inbox = [c \in Conns |-> <<>>]
  /\ transport = [c \in Conns |-> "open"]
  /\ now = 0
  /\ arrivals = 0
  /\ removals = [c \in Conns |-> 0]
  /\ call = NoCall
  /\ wire = [c \in Conns |-> <<>>]

RegistryNext == \E websocket \in RegistryConns : CallDisconnect(websocket)

RegistrySpec == RegistryInit /\ [][RegistryNext]_vars

(* ------------------- every client connected and reading --------------- *)
\* The state after every client has connected in turn and has been sent its
\* welcome: each handler waits in receive_text().  What arrives from outside is
\* counted from this state on.
SteadyInit ==
  /\ active_connections = [i \in 1..NumConns |-> i]
  /\ pc = [t \in Tasks |-> IF t \in Conns THEN "receive" ELSE "idle"]
  /\ err = [t \in Tasks |-> "none"]
  /\ received = [c \in Conns |-> NoText]
  /\ out = [c \in Conns |-> NoFrame]
  /\ bc = [t \in Tasks |-> NoBroadcast]
  /\ resp = [p \in Posts |-> NoResponse]
  /\ inbox = [c \in Conns |-> <<WelcomeFrame(isoformat(c))>>]
  /\ transport = [c \in Conns |-> "open"]
  /\ now = NumConns
  /\ arrivals = 0
  /\ removals = [c \in Conns |-> 0]
  /\ call = NoCall
  /\ wire = [c \in Conns |-> <<>>]

(* ------------------- POST /event with every event name ----------------- *)
\* Request bodies with every name of the model, without and with a payload
RoutingBodies ==
  {{<<"eventname", name>>} \cup payload :
     name \in Names, payload \in {{}, {<<"k", "1">>}}}

\* One POST /event and its broadcast to the connected clients
RoutingNext ==
  \/ \E body \in RoutingBodies : Post(NumConns + 1, body)
  \/ BroadcastStep(NumConns + 1)

RoutingSpec == SteadyInit /\ [][RoutingNext]_vars

(* --------------------------- GET /event ------------------------------- *)
\* The names and limits of the requests: no name or a name, no limit or a
\* limit inside, at the ends of, next to and far outside 1..100
QueryNames == {"", "a", "Ping"}
QueryLimits == (LimitMin - 2)..(LimitMax + 2) \cup {1000}
LimitParams ==
  {[given |-> FALSE, value |-> 0]}
    \cup {[given |-> TRUE, value |-> v] : v \in QueryLimits}

\* GET /event: the query parameters are validated, then get_event answers
GetEvent(eventname, param) ==
  LET limit == QueryLimit(param)
  IN /\ call' = [op |-> "get_event", arg |-> <<eventname, limit>>,
                 raised |-> FALSE, before |-> active_connections,
                 result |-> IF QueryLimitValid(limit)
                              THEN get_event(eventname, limit)
                              ELSE ValidationError]
     /\ UNCHANGED <<active_connections, pc, err, received, out, bc, resp,
                    inbox, transport, now, arrivals, removals, wire>>

QueryNext == \E eventname \in QueryNames, param \in LimitParams :
               GetEvent(eventname, param)

QuerySpec == Init /\ [][QueryNext]_vars

(* ---------------------- clients that only disconnect ------------------- *)
\* The connected clients close their sockets, one after another or at once;
\* each handler removes its connection and broadcasts the notification
DisconnectNext ==
  \/ \E c \in Conns : ClientClose(c)
  \/ \E c \in Conns : ReceiveDisconnect(c)
  \/ \E c \in Conns : BroadcastStep(c)

DisconnectSpec == SteadyInit /\ [][DisconnectNext]_vars

(* ============================== the claims ============================= *)
Live == Range(active_connections)
Returned(t) == bc[t].state = "returned"
Running(t) == bc[t].state = "running"
Attempts(t, c) == Count(bc[t].att, c)

C2_FailedConnectionRemoved ==
  \A t \in Tasks :
    Returned(t) => \A c \in bc[t].fails : c \notin Live

\* C3: a broadcast that has returned has called send_json exactly once on every
\* connection that was in the list during the whole broadcast, whatever other
\* sessions did to the list meanwhile, and it has not raised.
C3_ConsistentSnapshot ==
  \A t \in Tasks :
    /\ bc[t].state # "raised"
    /\ Returned(t) => \A c \in bc[t].stable : Attempts(t, c) = 1

\* C4: a session that was registered and has ended by a client disconnect or a
\* failed send of one of its own frames is out of the list, removed exactly once.
C4_DeregisteredExactlyOnce ==
  \A c \in Conns :
    /\ removals[c] <= 1
    /\ (pc[c] \in {"closed", "crashed"} /\ err[c] \in {"none"} \cup SendErrors)
         => (c \notin Live /\ removals[c] = 1)

Copies(c, frame) == Cardinality({i \in 1..Len(inbox[c]) : inbox[c][i] = frame})

\* A POST /event that has returned, with N >= 1 connections in the list, no
\* failed send and no change of the list during its broadcast
FanOutCase(p) ==
  /\ pc[p] = "returned"
  /\ bc[p].stable # {}
  /\ bc[p].fails = {}
  /\ ~bc[p].changed

\* C5 as stated: in that case each of the N connections has received exactly one
\* copy of the event message, whose name, payload and timestamp are the event,
\* data and timestamp of the response, for every payload.
C5_FanOutEveryPayload ==
  \A p \in Posts :
    FanOutCase(p) =>
      /\ \A c \in bc[p].stable : Copies(c, bc[p].msg) = 1
      /\ bc[p].msg.type = "event"
      /\ bc[p].msg.event = resp[p].event
      /\ bc[p].msg.timestamp = resp[p].timestamp
      /\ bc[p].msg.data = resp[p].data

\* C5 as amended: the same, but the payloads are equal for a non-empty payload
\* only; for the empty payload the message carries the empty object and the
\* response carries null.
C5_FanOut ==
  \A p \in Posts :
    FanOutCase(p) =>
      /\ \A c \in bc[p].stable : Copies(c, bc[p].msg) = 1
      /\ bc[p].msg.type = "event"
      /\ bc[p].msg.event = resp[p].event
      /\ bc[p].msg.timestamp = resp[p].timestamp
      /\ IF bc[p].msg.data.fields # {}
           THEN bc[p].msg.data = resp[p].data
           ELSE bc[p].msg.data = Obj({}) /\ resp[p].data = None

\* A POST /event with a payload has fanned out to all the connections
C5_Witness ==
  \E p \in Posts :
    /\ FanOutCase(p)
    /\ bc[p].stable = Conns
    /\ bc[p].msg.data.fields # {}
    /\ \A c \in Conns : Copies(c, bc[p].msg) = 1

\* C6: a POST /event whose broadcast is under way eventually returns, also when
\* the send to one connection never completes.
C6_StalledSendDoesNotBlock ==
  \A p \in Posts : (pc[p] = "broadcast") ~> (pc[p] = "returned")

\* C7: disconnect on a connection that is not in the list raises nothing and
\* leaves the list as it was.
C7_DisconnectAbsentIsNoOp ==
  (call.op = "disconnect" /\ call.arg \notin Range(call.before))
    => (~call.raised /\ active_connections = call.before)

\* C8: a text frame that is no JSON makes the handler send one frame of type
\* "error" to the sender and nothing else: on receiving it the handler starts no
\* broadcast and touches no inbox and not the list; when the send returns, the
\* error frame is added to the sender's inbox and to no other, the sender is
\* in the list and its handler is back at receive_text().
C8_MalformedMessage ==
  [][\A c \in Conns :
       /\ (pc[c] = "receive" /\ pc'[c] # "receive" /\ arrivals' # arrivals
             /\ ~received'[c].valid)
            => /\ pc'[c] = "error"
               /\ out'[c].type = "error"
               /\ inbox' = inbox
               /\ bc' = bc
               /\ active_connections' = active_connections
       /\ (pc[c] = "error" /\ pc'[c] # "error" /\ transport[c] = "open")
            => /\ pc'[c] = "receive"
               /\ out[c].type = "error"
               /\ inbox' = [inbox EXCEPT ![c] = Append(@, out[c])]
               /\ active_connections' = active_connections
               /\ c \in Range(active_connections')
               /\ bc'[c].state = "idle"]_vars

\* A sender has got its error frame and is reading again, beside another
\* registered session that got none
C8_Witness ==
  \E c, d \in Conns :
    /\ c # d
    /\ pc[c] = "receive" /\ ~received[c].valid
    /\ \E i \in 1..Len(inbox[c]) : inbox[c][i].type = "error"
    /\ c \in Live /\ d \in Live
    /\ \A i \in 1..Len(inbox[d]) : inbox[d][i].type # "error"

NoStall == \A c \in Conns : transport[c] # "stalled"

C10_StoredBeforeBroadcast ==
  \A c \in Conns : \A i \in 1..Len(inbox[c]) :
    inbox[c][i].type = "event" =>
      \E k \in 1..Len(get_event(inbox[c][i].event, 100).events) :
        LET e == get_event(inbox[c][i].event, 100).events[k]
        IN e.event = inbox[c][i].event /\ e.timestamp = inbox[c][i].timestamp

\* C11: every message of type "event" handed to manager.broadcast, from
\* POST /event or from a websocket frame, carries a non-empty name.
C11_NoEmptyNameBroadcast ==
  \A t \in Tasks :
    bc[t].msg.type = "event" => bc[t].msg.event \notin {"", NoField}

\* C12: the routing of handle_event is a total, case-insensitive function of
\* the name: every casing of "handshake" is answered "Handshake acknowledged",
\* every casing of "ping" is answered "Pong", every other name is answered
\* "Event '<name>' received"; and the branch has no other effect: the broadcast
\* message carries the name, payload and timestamp as given, the list of
\* connections stays as it was and every connection is sent that one message.
HandshakeNames ==
  {Join(cs) : cs \in Casings(<<"h", "a", "n", "d", "s", "h", "a", "k", "e">>)}
PingNames == {Join(cs) : cs \in Casings(<<"p", "i", "n", "g">>)}
C12_ExpectedMessage(name) ==
  IF name \in HandshakeNames THEN "Handshake acknowledged"
  ELSE IF name \in PingNames THEN "Pong"
  ELSE "Event '" \o name \o "' received"
C12_RoutingTotal ==
  \A p \in Posts :
    pc[p] \notin {"idle", "rejected"} =>
      /\ resp[p].status = "success"
      /\ resp[p].message = C12_ExpectedMessage(resp[p].event)
      /\ bc[p].msg = Frame("event", resp[p].event, bc[p].msg.data, NoField,
                           resp[p].timestamp, NoField)
      /\ bc[p].msg.data.kind = "object"
      /\ resp[p].data = ResponseData(bc[p].msg.data.fields)
      /\ active_connections = [i \in 1..NumConns |-> i]
      /\ Returned(p) =>
           \A c \in Conns :
             inbox[c] = <<WelcomeFrame(isoformat(c)), bc[p].msg>>
C12_Witness ==
  \E p \in Posts :
    /\ Returned(p)
    /\ resp[p].event = "hAndShaKE"
    /\ resp[p].message = "Handshake acknowledged"
    /\ \A c \in Conns : Copies(c, bc[p].msg) = 1

\* C13 (as claimed): a limit outside 1..100 is clamped, not rejected: the
\* answer to a query is the answer to the same query with its limit clamped
\* into 1..100 (limit 0 as limit 1, limit 1000 as limit 100).
C13_Clamp(limit) ==
  IF limit < LimitMin THEN LimitMin
  ELSE IF limit > LimitMax THEN LimitMax ELSE limit
C14_Connected(c) == pc[c] \notin {"init", "accept"} /\ err[c] # "AcceptError"
C14_RegistryInvariant ==
  LET registered == {c \in Conns : C14_Connected(c) /\ removals[c] = 0}
  IN /\ \A c \in Conns : Count(active_connections, c) <= 1
     /\ \A c \in Conns : removals[c] <= 1
     /\ Live = registered
     /\ LiveConnectionCount = Cardinality(registered)
C14_Witness ==
  /\ LiveConnectionCount = 2
  /\ \E c \in Conns : removals[c] = 1 /\ C14_Connected(c) /\ c \notin Live
  /\ \E c \in Conns : pc[c] = "receive" /\ c \in Live

\* C15: on a client disconnect the connection is removed before the
\* notification is broadcast: the notification is never sent to the
\* disconnected connection, one notification broadcast is made per disconnect,
\* and every connection that stays in the list (with a working transport)
\* throughout that broadcast has received its notification when it returns.
C15_NotificationOf(c) == pc[c] \in {"notify", "closed"}
C15_DisconnectNotification ==
  \A c \in Conns :
    /\ removals[c] = (IF C15_NotificationOf(c) THEN 1 ELSE 0)
    /\ C15_NotificationOf(c) =>
         /\ bc[c].msg.type = "notification"
         /\ c \notin Live
         /\ Attempts(c, c) = 0 /\ Copies(c, bc[c].msg) = 0
         /\ pc[c] = "closed" =>
              \A d \in bc[c].stable :
                transport[d] = "open" => Copies(d, bc[c].msg) = 1

\* C16: for every inbound frame that parses as JSON, an object or not, the
\* handler goes on to reply to the sender (a confirmation, after the broadcast,
\* or an echo) with the sender still in the list, and when that send returns
\* the sender has been sent exactly that one frame and the handler is back in
\* receive_text().
C16_ParsedFrameReplied ==
  [][\A c \in Conns :
       /\ (/\ pc[c] = "receive" /\ pc'[c] # "receive"
           /\ arrivals' # arrivals /\ received'[c].valid)
            => /\ pc'[c] \in {"broadcast", "confirm", "echo"}
               /\ c \in Range(active_connections')
       /\ (pc[c] \in {"confirm", "echo"} /\ pc'[c] # pc[c] /\ transport[c] = "open")
            => /\ out[c].type \in {"confirmation", "echo"}
               /\ inbox'[c] = Append(inbox[c], out[c])
               /\ pc'[c] = "receive"
               /\ c \in Range(active_connections')]_vars

\* C17: a session that sends an event over its websocket is itself sent the
\* broadcast: every confirmation frame it has received is preceded, in what it
\* has received, by the event frame with the same timestamp and event name.
C17_SenderReceivesOwnEvent ==
  \A c \in Conns : \A i \in 1..Len(inbox[c]) :
    inbox[c][i].type = "confirmation" =>
      \E j \in 1..(i - 1) :
        /\ inbox[c][j].type = "event"
        /\ inbox[c][j].source = "websocket"
        /\ inbox[c][j].event = inbox[c][i].event
        /\ inbox[c][j].timestamp = inbox[c][i].timestamp

\* C18: the first frame a connected client receives is the welcome frame: no
\* frame broadcast by another handler (an event or a notification) is
\* delivered to it before, however the handlers interleave.
C18_WelcomeFirst ==
  \A c \in Conns : inbox[c] # <<>> => inbox[c][1].type = "connection"

\* A broadcast has called send_json on a connection whose welcome has not
\* gone out yet (and waits behind it), or has been delivered right after it
C18_Witness ==
  \E c \in Conns, t \in Tasks :
    /\ t # c
    /\ pc[c] = "welcome" /\ inbox[c] = <<>>
    /\ c \in Live
    /\ Running(t) /\ bc[t].cur = c
    /\ bc[t].msg.type \in {"event", "notification"}
    /\ wire[c] = <<c, t>>

\* C19: an inbound JSON object without "eventname" starts no broadcast: on
\* receiving it the handler only prepares a frame of type "echo" that carries
\* the message, with no broadcast started, no frame delivered to anyone and the
\* list unchanged; when the send returns, the echo is added to the sender's
\* inbox and to no other, and the list is unchanged.
C19_ObjectWithoutName(text) ==
  /\ text.valid
  /\ text.value.kind = "object"
  /\ \A f \in text.value.fields : f[1] # "eventname"
C19_EchoOnly ==
  [][\A c \in Conns :
       /\ (pc[c] = "receive" /\ pc'[c] # "receive" /\ arrivals' # arrivals
             /\ C19_ObjectWithoutName(received'[c]))
            => /\ pc'[c] = "echo"
               /\ out'[c].type = "echo"
               /\ out'[c].data = received'[c].value
               /\ inbox' = inbox
               /\ bc' = bc
               /\ active_connections' = active_connections
       /\ (pc[c] = "echo" /\ pc'[c] # "echo" /\ transport[c] = "open")
            => /\ pc'[c] = "receive"
               /\ out[c].type = "echo"
               /\ inbox' = [inbox EXCEPT ![c] = Append(@, out[c])]
               /\ active_connections' = active_connections
               /\ bc'[c].state = "idle"]_vars

\* A sender has got its echo and is reading again, beside another registered
\* session that has received nothing but its welcome
C19_Witness ==
  \E c, d \in Conns :
    /\ c # d
    /\ pc[c] = "receive" /\ C19_ObjectWithoutName(received[c])
    /\ received[c].value.fields # {}
    /\ \E i \in 1..Len(inbox[c]) :
         inbox[c][i].type = "echo" /\ inbox[c][i].data = received[c].value
    /\ c \in Live /\ d \in Live
    /\ Len(inbox[d]) = 1 /\ inbox[d][1].type = "connection"
====
